---- MODULE Spec2Model ----
(***************************************************************************)
(* Model of the minibatch generator batch_data and of the two training     *)
(* loops that consume it (ch2/mnist_tensorflow.ipynb).                     *)
(*                                                                         *)
(* An example of the dataset is a pair <<side, index>>: <<"x", k>> is the  *)
(* feature entry of the example at 0-based index k of x_train, <<"y", k>>  *)
(* its label entry in y_train.  Arrays are sequences of such entries.      *)
(* Array objects live in a heap, and Python names hold references into it, *)
(* so that rebinding a name and writing into an array are different.       *)
(*                                                                         *)
(* A run is one execution of the notebook in its own process; the          *)
(* specifications have one run.                                            *)
(***************************************************************************)
EXTENDS Integers, Sequences, FiniteSets, TLC

\* Largest dataset length explored (the lengths of x_train and y_train).
MaxN == 5
\* Iterations of each of the two training loops (num_steps, 10**4 in the notebook).
NumSteps == 3
\* Largest state of the global NumPy generator explored.
MaxRng == 5

VARIABLES
  runs,             \* the runs of the notebook
  features,         \* the content of x_train when the notebook starts
  labels,           \* the content of y_train when the notebook starts
  batch_size,       \* the batch_size passed to batch_data
  rng,              \* per run: the state of the global NumPy generator
  draws,            \* per run: number of permutations drawn from it
  heap,             \* per run: the array objects, by reference 1..Len
  source,           \* per run: batch_data's local source (a reference, 0 unbound)
  target,           \* per run: batch_data's local target (a reference, 0 unbound)
  shuffle_indices,  \* per run: batch_data's local shuffle_indices
  gpc,              \* per run: where the generator is
  stop,             \* per run: the stop of the current range(0, ...)
  batch_i,          \* per run: the loop variable batch_i
  pass,             \* per run: number of iterations of "while True" entered
  cpc,              \* per run: where the notebook is
  i,                \* per run: iterations of the current training loop started
  waiting,          \* per run: a next(batch_generator) call has not returned
  err,              \* per run: the exception raised to the notebook, or "none"
  hist              \* per run: the batches returned by next, in order

vars == <<runs, features, labels, batch_size, rng,
          draws, heap, source, target, shuffle_indices, gpc, stop, batch_i,
          pass, cpc, i, waiting, err, hist>>

inputVars == <<runs, features, labels, batch_size>>

----------------------------------------------------------------------------
(* Pure helpers.                                                           *)

RECURSIVE Fact(_)
Fact(n) == IF n <= 1 THEN 1 ELSE n * Fact(n - 1)

\* The states of the global NumPy generator.
RngStates == 0..MaxRng

\* The saturation point of the pass counter.
MaxPass == 2 * NumSteps + 2

Min(a, b) == IF a <= b THEN a ELSE b

\* The array of n examples of one side, in index order.
Examples(side, n) == [k \in 1..n |-> <<side, k - 1>>]

\* Sequence s without its element at position p.
RemoveAt(s, p) == SubSeq(s, 1, p - 1) \o SubSeq(s, p + 1, Len(s))

\* np.arange(n)
Arange(n) == [k \in 1..n |-> k - 1]

\* The ordering of the items numbered code, 0 <= code < Fact(Len(items)).
PermFrom[code \in Nat, items \in Seq(Nat)] ==
  IF items = <<>> THEN <<>>
  ELSE LET f == Fact(Len(items) - 1)
           d == code \div f
       IN  <<items[d + 1]>> \o PermFrom[code % f, RemoveAt(items, d + 1)]

\* Python's a // b for a >= 0 and b # 0 (rounding towards minus infinity).
FloorDiv(a, b) ==
  IF b > 0 THEN a \div b ELSE 0 - ((a + (0 - b) - 1) \div (0 - b))

\* Python's s[a:b] for 0 <= a (both ends clipped to the length).
Slice(s, a, b) ==
  LET lo == Min(a, Len(s))
      hi == Min(IF b < lo THEN lo ELSE b, Len(s))
  IN  SubSeq(s, lo + 1, hi)

\* NumPy's arr[idx] for an integer array idx of non-negative indices:
\* a new array; defined when every index is within bounds.
FancyIndexOK(arr, idx) == \A k \in 1..Len(idx) : idx[k] < Len(arr)
FancyIndex(arr, idx) == [k \in 1..Len(idx) |-> arr[idx[k] + 1]]

----------------------------------------------------------------------------
(* The statements of batch_data.                                           *)

\* The number of the ordering of n items that a generator state selects.
OrderingOf(rngState, n) == (rngState * 7919 + 1) % Fact(n)

\* Line 100: np.random.permutation(np.arange(n)) takes the ordering from the
\* state of the global generator.
DrawPermutation(rngState, n) ==
  PermFrom[OrderingOf(rngState, n), Arange(n)]

\* The state of the global generator after a permutation of n items was
\* drawn: ordering fewer than two items consumes no random number.
NextRng(rngState, n) ==
  IF n <= 1 THEN rngState ELSE (rngState + 1) % (MaxRng + 1)

\* Line 101: source[shuffle_indices]
SourceAfterShuffle(arr, idx) == FancyIndex(arr, idx)

\* Line 102: target[shuffle_indices]
TargetUnshuffled(arr, idx) == Slice(arr, 0, Len(idx))
TargetAfterShuffle(arr, idx) == FancyIndex(arr, idx)

\* Lines 101-102: the result of the indexing is a new array object and the
\* name is rebound to it; the object the name held before is not written.
StoreInPlace(h, ref, arr) == [heap |-> [h EXCEPT ![ref] = arr], ref |-> ref]
StoreIndexed(h, ref, arr) == [heap |-> Append(h, arr), ref |-> Len(h) + 1]

\* Line 104: the stop of range(0, len(source)//batch_size)
RangeStopCeil(len, bs) == FloorDiv(len + bs - 1, bs)
RangeStop(len, bs) == FloorDiv(len, bs)

\* Line 104: whether the range has an element for batch_i
RangeHasNextShort(bi, st) == bi + 1 < st
RangeHasNext(bi, st) == bi < st

\* Line 105: start_i = batch_i * batch_size
StartIndexUnscaled(bi, bs) == bi
StartIndex(bi, bs) == bi * bs

\* Lines 106-107: the end of the slices, start_i + batch_size
SliceStopShort(start_i, bs) == start_i + bs - 1
SliceStopLong(start_i, bs) == start_i + bs + 1
SliceStop(start_i, bs) == start_i + bs

----------------------------------------------------------------------------
(* Initial states.                                                         *)

\* The kernel has started and no cell has been executed.
InitRuns(R) ==
  /\ runs = R
  /\ features = <<>>
  /\ labels = <<>>
  /\ batch_size = 0
  /\ rng = [r \in R |-> 0]
  /\ draws = [r \in R |-> 0]
  /\ heap = [r \in R |-> <<>>]
  /\ source = [r \in R |-> 0]
  /\ target = [r \in R |-> 0]
  /\ shuffle_indices = [r \in R |-> <<>>]
  /\ gpc = [r \in R |-> "none"]
  /\ stop = [r \in R |-> 0]
  /\ batch_i = [r \in R |-> 0]
  /\ pass = [r \in R |-> 0]
  /\ cpc = [r \in R |-> "cell1"]
  /\ i = [r \in R |-> 0]
  /\ waiting = [r \in R |-> FALSE]
  /\ err = [r \in R |-> "none"]
  /\ hist = [r \in R |-> <<>>]

Init == InitRuns({1})

----------------------------------------------------------------------------
(* The notebook and the generator.                                         *)

\* The cell after the one a run is executing.
AfterCell(c) == IF c = "loop1" THEN "between" ELSE "done"

\* x_train and y_train are the first two objects of a run's heap.
XTrainRef == 1
YTrainRef == 2

\* Lines 15-42 and 131: the imports, which leave the global NumPy generator
\* in a state taken from the entropy of the system, the loading of x_train
\* and y_train, and the choice of batch_size.
Setup ==
  /\ \A r \in runs : cpc[r] = "cell1"
  /\ \E nf \in 0..MaxN : features' = Examples("x", nf)
  /\ \E nl \in 0..MaxN : labels' = Examples("y", nl)
  /\ batch_size' \in (0 - 1)..(MaxN + 1)
  /\ rng' \in [runs -> RngStates]
  /\ heap' = [r \in runs |-> <<features', labels'>>]
  /\ cpc' = [r \in runs |-> "cell7"]
  /\ UNCHANGED <<runs, draws, source, target, shuffle_indices, gpc, stop,
                 batch_i, pass, i, waiting, err, hist>>

\* Line 133: batch_generator = batch_data(x_train, y_train, batch_size).
\* Calling a generator function binds the arguments and runs no statement.
Construct(r) ==
  /\ cpc[r] = "cell7"
  /\ gpc' = [gpc EXCEPT ![r] = "created"]
  /\ source' = [source EXCEPT ![r] = XTrainRef]
  /\ target' = [target EXCEPT ![r] = YTrainRef]
  /\ cpc' = [cpc EXCEPT ![r] = "loop1"]
  /\ i' = [i EXCEPT ![r] = 0]
  /\ UNCHANGED <<inputVars, rng, draws, heap, shuffle_indices, stop, batch_i,
                 pass, waiting, err, hist>>

\* Lines 138-139 and 185-186: the next iteration of the training loop calls
\* next(batch_generator), which resumes the generator where it was suspended;
\* a generator that has raised is finished and raises StopIteration.
CallNext(r) ==
  /\ cpc[r] \in {"loop1", "loop2"}
  /\ ~waiting[r]
  /\ i[r] < NumSteps
  /\ i' = [i EXCEPT ![r] = i[r] + 1]
  /\ IF gpc[r] = "finished"
     THEN /\ err' = [err EXCEPT ![r] = "StopIteration"]
          /\ cpc' = [cpc EXCEPT ![r] = AfterCell(cpc[r])]
          /\ UNCHANGED <<gpc, batch_i, waiting>>
     ELSE /\ waiting' = [waiting EXCEPT ![r] = TRUE]
          /\ gpc' = [gpc EXCEPT ![r] =
                       IF gpc[r] = "created" THEN "shuffle" ELSE "for"]
          /\ batch_i' = [batch_i EXCEPT ![r] =
                       IF gpc[r] = "created" THEN batch_i[r] ELSE batch_i[r] + 1]
          /\ UNCHANGED <<err, cpc>>
  /\ UNCHANGED <<inputVars, rng, draws, heap, source, target, shuffle_indices,
                 stop, pass, hist>>

\* Lines 100-102: draw the permutation and reorder source and target.
GenShuffle(r) ==
  /\ gpc[r] = "shuffle"
  /\ LET idx == DrawPermutation(rng[r], Len(heap[r][target[r]]))
         src == heap[r][source[r]]
         tgt == heap[r][target[r]]
     IN  /\ shuffle_indices' = [shuffle_indices EXCEPT ![r] = idx]
         /\ rng' = [rng EXCEPT ![r] = NextRng(rng[r], Len(idx))]
         /\ draws' = [draws EXCEPT ![r] = draws[r] + 1]
         /\ IF FancyIndexOK(src, idx)
            THEN LET s1 == StoreIndexed(heap[r], source[r],
                                        SourceAfterShuffle(src, idx))
                     s2 == StoreIndexed(s1.heap, target[r],
                                        TargetAfterShuffle(tgt, idx))
                 IN  /\ heap' = [heap EXCEPT ![r] = s2.heap]
                     /\ source' = [source EXCEPT ![r] = s1.ref]
                     /\ target' = [target EXCEPT ![r] = s2.ref]
                     /\ gpc' = [gpc EXCEPT ![r] = "while"]
                     /\ UNCHANGED <<err, waiting, cpc>>
            ELSE /\ gpc' = [gpc EXCEPT ![r] = "finished"]
                 /\ err' = [err EXCEPT ![r] = "IndexError"]
                 /\ waiting' = [waiting EXCEPT ![r] = FALSE]
                 /\ cpc' = [cpc EXCEPT ![r] = AfterCell(cpc[r])]
                 /\ UNCHANGED <<heap, source, target>>
  /\ UNCHANGED <<inputVars, stop, batch_i, pass, i, hist>>

\* Lines 103-104: an iteration of "while True" starts the for loop; the
\* range is computed once, and a batch_size of 0 raises ZeroDivisionError.
GenWhile(r) ==
  /\ gpc[r] = "while"
  /\ pass' = [pass EXCEPT ![r] = Min(pass[r] + 1, MaxPass)]
  /\ IF batch_size = 0
     THEN /\ gpc' = [gpc EXCEPT ![r] = "finished"]
          /\ err' = [err EXCEPT ![r] = "ZeroDivisionError"]
          /\ waiting' = [waiting EXCEPT ![r] = FALSE]
          /\ cpc' = [cpc EXCEPT ![r] = AfterCell(cpc[r])]
          /\ UNCHANGED <<stop, batch_i>>
     ELSE /\ stop' = [stop EXCEPT ![r] =
                        RangeStop(Len(heap[r][source[r]]), batch_size)]
          /\ batch_i' = [batch_i EXCEPT ![r] = 0]
          /\ gpc' = [gpc EXCEPT ![r] = "for"]
          /\ UNCHANGED <<err, waiting, cpc>>
  /\ UNCHANGED <<inputVars, rng, draws, heap, source, target, shuffle_indices,
                 i, hist>>

\* Lines 104-109: the for loop either ends, and "while True" iterates, or
\* takes the two slices and yields copies of them, which suspends the
\* generator and returns the batch to the training loop.
GenFor(r) ==
  /\ gpc[r] = "for"
  /\ IF RangeHasNext(batch_i[r], stop[r])
     THEN LET start_i == StartIndex(batch_i[r], batch_size)
              source_batch == Slice(heap[r][source[r]], start_i,
                                    SliceStop(start_i, batch_size))
              target_batch == Slice(heap[r][target[r]], start_i,
                                    SliceStop(start_i, batch_size))
          IN  /\ hist' = [hist EXCEPT ![r] =
                   Append(hist[r], [pass |-> pass[r], x |-> source_batch,
                                    y |-> target_batch])]
              /\ gpc' = [gpc EXCEPT ![r] = "yield"]
              /\ waiting' = [waiting EXCEPT ![r] = FALSE]
     ELSE /\ gpc' = [gpc EXCEPT ![r] = "while"]
          /\ UNCHANGED <<hist, waiting>>
  /\ UNCHANGED <<inputVars, rng, draws, heap, source, target, shuffle_indices,
                 stop, batch_i, pass, cpc, i, err>>

\* Lines 142-143 and 190-191: a training loop that has done its num_steps
\* iterations ends its cell.
LoopExit(r) ==
  /\ cpc[r] \in {"loop1", "loop2"}
  /\ ~waiting[r]
  /\ i[r] = NumSteps
  /\ cpc' = [cpc EXCEPT ![r] = AfterCell(cpc[r])]
  /\ UNCHANGED <<inputVars, rng, draws, heap, source, target, shuffle_indices,
                 gpc, stop, batch_i, pass, i, waiting, err, hist>>

\* Line 185: the cell with the TensorBoard summaries starts its loop on the
\* generator the first loop used.
StartCell8(r) ==
  /\ cpc[r] = "between"
  /\ cpc' = [cpc EXCEPT ![r] = "loop2"]
  /\ i' = [i EXCEPT ![r] = 0]
  /\ UNCHANGED <<inputVars, rng, draws, heap, source, target, shuffle_indices,
                 gpc, stop, batch_i, pass, waiting, err, hist>>

Next ==
  \/ Setup
  \/ \E r \in runs : Construct(r)
  \/ \E r \in runs : CallNext(r)
  \/ \E r \in runs : GenShuffle(r)
  \/ \E r \in runs : GenWhile(r)
  \/ \E r \in runs : GenFor(r)
  \/ \E r \in runs : LoopExit(r)
  \/ \E r \in runs : StartCell8(r)

\* A generator that was resumed keeps running until it yields or raises.
GenStep == \E r \in runs : GenShuffle(r) \/ GenWhile(r) \/ GenFor(r)

Fairness == WF_vars(GenStep)

Spec == Init /\ [][Next]_vars

LiveSpec == Init /\ [][Next]_vars /\ Fairness

----------------------------------------------------------------------------
(* Vocabulary of the properties.                                           *)

N == Len(labels)

\* The inputs the contract of batch_data calls valid.
SameLength == Len(features) = Len(labels)
ValidBatchSize == 1 <= batch_size /\ batch_size <= N
ValidInput == SameLength /\ ValidBatchSize

TypeOK ==
  /\ \A r \in runs :
       /\ gpc[r] \in {"none", "created", "shuffle", "while", "for", "yield",
                      "finished"}
       /\ cpc[r] \in {"cell1", "cell7", "loop1", "between", "loop2", "done"}
       /\ i[r] \in 0..NumSteps
       /\ pass[r] \in 0..MaxPass
       /\ Len(hist[r]) <= 2 * NumSteps
       /\ waiting[r] \in BOOLEAN

\* The 0-based indices of the original examples a batch part is made of.
Indices(part) == {part[k][2] : k \in 1..Len(part)}

\* The entries of a run's history that were yielded in pass p.
PassEntries(r, p) == {k \in 1..Len(hist[r]) : hist[r][k].pass = p}

----------------------------------------------------------------------------
(* C1: whenever a pass is exhausted, batch_data draws a new permutation    *)
(* before it yields the next batch: a batch yielded in pass p comes after  *)
(* p permutations were drawn.                                              *)
C1_PermutationDrawnEachPass ==
  \A r \in runs : gpc[r] = "yield" => draws[r] = pass[r]

(* C2: with lengths that agree and a batch_size that is not in 1..N, the   *)
(* call of batch_data fails with InvalidArgument: once the call is over    *)
(* the error is raised, no batch is yielded and no request is left waiting.*)
C2_InvalidBatchSizeRejected ==
  \A r \in runs :
    (SameLength /\ ~ValidBatchSize /\ gpc[r] # "none") =>
      /\ err[r] = "InvalidArgument"
      /\ hist[r] = <<>>
      /\ ~waiting[r]

(* C3: with len(features) # len(labels), the call of batch_data fails with *)
(* InvalidArgument and no batch is ever yielded, whichever is longer.      *)
C3_LengthMismatchRejected ==
  \A r \in runs :
    (~SameLength /\ gpc[r] # "none") =>
      /\ err[r] = "InvalidArgument"
      /\ hist[r] = <<>>

(* C4: on a valid input, every request for a batch that is waiting is      *)
(* eventually answered with a batch, and not with an exception.            *)
C4_EveryRequestReturnsBatch ==
  (ValidInput /\ waiting[1]) ~> (~waiting[1] /\ err[1] = "none")

\* Both training loops have run to their end on a valid input.
C4_Witness ==
  /\ ValidInput
  /\ cpc[1] = "done"
  /\ err[1] = "none"
  /\ Len(hist[1]) = 2 * NumSteps

(* C5: on a valid input, the feature part and the label part of every      *)
(* batch yielded have exactly batch_size examples.                         *)
C5_BatchHasBatchSizeExamples ==
  \A r \in runs : \A k \in 1..Len(hist[r]) :
    ValidInput =>
      /\ Len(hist[r][k].x) = batch_size
      /\ Len(hist[r][k].y) = batch_size

\* The last batch of a pass that leaves a remainder was yielded, and the
\* next pass has started.
C5_Witness ==
  /\ ValidInput
  /\ batch_size >= 2
  /\ N % batch_size # 0
  /\ \E k \in 1..Len(hist[1]) : hist[1][k].pass = 2
(* C6: on a valid input, at every position of every batch yielded the     *)
(* feature entry and the label entry are those of one original example.    *)
C6_FeaturesAndLabelsAligned ==
  \A r \in runs : \A k \in 1..Len(hist[r]) :
    ValidInput =>
      /\ Len(hist[r][k].x) = Len(hist[r][k].y)
      /\ \A j \in 1..Len(hist[r][k].x) :
           /\ hist[r][k].x[j][1] = "x"
           /\ hist[r][k].y[j][1] = "y"
           /\ hist[r][k].x[j][2] = hist[r][k].y[j][2]

\* A batch of the second pass was yielded from a dataset that the shuffle
\* did not leave in its original order.
C6_Witness ==
  /\ ValidInput
  /\ batch_size >= 2
  /\ Len(hist[1]) >= 1
  /\ hist[1][1].x # Slice(features, 0, batch_size)
  /\ hist[1][Len(hist[1])].pass = 2

(* C7: on a valid input, the examples used by the batches of one pass have *)
(* indices in [0, N), no index is in two batches of the pass, and no index *)
(* is twice in one batch.                                                  *)
C7_NoIndexTwiceInPass ==
  \A r \in runs :
    ValidInput =>
      /\ \A k \in 1..Len(hist[r]) :
           /\ Indices(hist[r][k].x) \subseteq 0..(N - 1)
           /\ Cardinality(Indices(hist[r][k].x)) = Len(hist[r][k].x)
      /\ \A k1, k2 \in 1..Len(hist[r]) :
           (k1 < k2 /\ hist[r][k1].pass = hist[r][k2].pass) =>
             Indices(hist[r][k1].x) \cap Indices(hist[r][k2].x) = {}

\* Two batches of two or more examples were yielded in one pass.
C7_Witness ==
  /\ ValidInput
  /\ batch_size >= 2
  /\ \E k \in 2..Len(hist[1]) : hist[1][k].pass = hist[1][k - 1].pass

\* The indices of the examples yielded by run r in pass p.
PassIndices(r, p) == UNION {Indices(hist[r][k].x) : k \in PassEntries(r, p)}

(* C8: on a valid input, a pass that is over has yielded N div batch_size  *)
(* batches; they cover batch_size * (N div batch_size) distinct examples   *)
(* and leave N mod batch_size examples out; with batch_size = N the pass   *)
(* is one batch of all N examples.                                         *)
C8_PassYieldsFloorBatches ==
  \A r \in runs : \A p \in 1..(pass[r] - 1) :
    ValidInput =>
      /\ Cardinality(PassEntries(r, p)) = N \div batch_size
      /\ Cardinality(PassIndices(r, p)) = batch_size * (N \div batch_size)
      /\ Cardinality((0..(N - 1)) \ PassIndices(r, p)) = N % batch_size
      /\ batch_size = N =>
           /\ Cardinality(PassEntries(r, p)) = 1
           /\ PassIndices(r, p) = 0..(N - 1)

\* A pass of two batches that leaves one example out is over.
C8_Witness ==
  /\ ValidInput
  /\ pass[1] >= 2
  /\ N \div batch_size >= 2
  /\ N % batch_size # 0

(* C9: x_train and y_train hold the elements they held before the          *)
(* generator was created, in the same order, whatever was requested.       *)
C9_CallerDatasetUnchanged ==
  \A r \in runs :
    cpc[r] # "cell1" =>
      /\ heap[r][XTrainRef] = features
      /\ heap[r][YTrainRef] = labels

\* The generator has reordered a dataset and yielded from it.
C9_Witness ==
  /\ Len(hist[1]) >= 2
  /\ heap[1][source[1]] # features
  /\ heap[1][target[1]] # labels

\* The examples that the partition of the shuffled dataset into batches
\* leaves out: those after the last full batch, by original index.
LeftOut(r) ==
  {shuffle_indices[r][k] :
     k \in (batch_size * (N \div batch_size) + 1)..Len(shuffle_indices[r])}

(* C11: with 1 <= batch_size <= N and N mod batch_size > 0, the N mod       *)
(* batch_size examples that the first pass leaves out are fixed when the   *)
(* first batch is produced and are in no batch yielded later, in either    *)
(* training loop.                                                          *)
C11_LeftOutNeverYielded ==
  \A r \in runs :
    (ValidInput /\ N % batch_size > 0 /\ Len(hist[r]) >= 1) =>
      /\ Cardinality(LeftOut(r)) = N % batch_size
      /\ pass[r] >= 2 => LeftOut(r) = (0..(N - 1)) \ PassIndices(r, 1)
      /\ \A k \in 1..Len(hist[r]) :
           /\ Indices(hist[r][k].x) \cap LeftOut(r) = {}
           /\ Indices(hist[r][k].y) \cap LeftOut(r) = {}

\* The second training loop was given a batch of a later pass by the
\* generator the first loop used, and some example was left out.
C11_Witness ==
  /\ ValidInput
  /\ N % batch_size > 0
  /\ cpc[1] = "loop2"
  /\ Len(hist[1]) > NumSteps
  /\ hist[1][Len(hist[1])].pass >= 3

====
